---- MODULE Spec2Model ----
(***************************************************************************)
(* Model of kovlive.py: the KovLang decoder.  A phrase is a sequence of    *)
(* one-character strings, a token of the bracketed sentence is a phrase,   *)
(* a dict is a function with a finite domain, and a dict whose iteration   *)
(* order the code depends on is a sequence of entries in insertion order.  *)
(* A probability is an integer number of units of 1/ONE; a cost            *)
(* (-math.log) is an integer number of milli-nats.                         *)
(***************************************************************************)
EXTENDS Integers, Sequences, FiniteSets, TLC

VARIABLES
    phrasemodel,   \* self.phrasemodel: source phrase -> ordered dict of [tgt, prob]
    unimodel,      \* self.unimodel: token -> prob
    bimodel,       \* self.bimodel: <<w0, w1>> -> prob
    pc,            \* position in search/convert: idle, forward, forward_done, select, backtrace, done, error
    entry,         \* entry point of the running call: "search" or "convert"
    arg_sent,      \* sent_without_symbol as given by the caller
    arg_max_len,   \* max_len as given by the caller
    verbose,       \* verbose flag of the call
    max_len,       \* max_len as seen inside search
    sent,          \* [start_symbol] + sent_without_symbol + [end_symbol]
    best,          \* best[pos+1]: ordered dict key -> cost, as a sequence of [key, val]
    before_pos,    \* before_pos[pos+1]: dict key -> predecessor key
    curpos,        \* loop variable of the outer loop
    next_end,      \* loop variable of the inner loop
    ans,           \* the list built by the backtrace, the value search returns
    phrase,        \* backtrace cursor: phrase
    start,         \* backtrace cursor: span start
    end,           \* backtrace cursor: span end
    text,          \* value returned by convert
    err            \* exception that ended the call, "" when none

vars == <<phrasemodel, unimodel, bimodel, pc, entry, arg_sent, arg_max_len,
          verbose, max_len, sent, best, before_pos, curpos, next_end, ans,
          phrase, start, end, text, err>>

models == <<phrasemodel, unimodel, bimodel>>

-----------------------------------------------------------------------------
(* Bounds of the model *)

MaxSentLen == 2

MaxArgLen == 2

-----------------------------------------------------------------------------
(* Strings and dicts *)

RECURSIVE Join(_)
Join(lst) == IF lst = <<>> THEN <<>> ELSE Head(lst) \o Join(Tail(lst))

RECURSIVE Reverse(_)
Reverse(lst) == IF lst = <<>> THEN <<>> ELSE Append(Reverse(Tail(lst)), Head(lst))

Slice(lst, from, to) == SubSeq(lst, from + 1, to)

LastChar(p) == p[Len(p)]

FirstChar(p) == p[1]

EmptyDict == [k \in {} |-> 0]

DictSet(d, k, v) == [x \in (DOMAIN d) \cup {k} |-> IF x = k THEN v ELSE d[x]]

OKeys(od) == {od[i].key : i \in 1..Len(od)}

OGet(od, k) == (CHOOSE i \in 1..Len(od) : od[i].key = k)

OSet(od, k, v) ==
    IF k \in OKeys(od)
    THEN [od EXCEPT ![OGet(od, k)] = [key |-> k, val |-> v]]
    ELSE Append(od, [key |-> k, val |-> v])

start_symbol == <<"<", "s", ">">>

end_symbol == <<"<", "/", "s", ">">>

-----------------------------------------------------------------------------
(* Numbers *)

ONE == 2000000000

lambda2 == 95

lambda1 == 95

unk_n == 1000000

DefaultMaxLen == 100

Inf == 2147483647

MathDomainError == -1

RECURSIVE FloorLog2(_)
FloorLog2(p) == IF p < 2 THEN 0 ELSE 1 + FloorLog2(p \div 2)

RECURSIVE Pow2(_)
Pow2(n) == IF n = 0 THEN 1 ELSE 2 * Pow2(n - 1)

RECURSIVE Log2Frac(_, _, _)
Log2Frac(m, k, acc) ==
    IF k = 0 THEN acc
    ELSE LET sq == (m * m) \div 16384
         IN  IF sq >= 32768
             THEN Log2Frac(sq \div 2, k - 1, 2 * acc + 1)
             ELSE Log2Frac(sq, k - 1, 2 * acc)

Log2Q(p) ==
    LET e == FloorLog2(p)
        m == IF e >= 14 THEN p \div Pow2(e - 14) ELSE p * Pow2(14 - e)
    IN  e * 4096 + Log2Frac(m, 12, 0)

Log2One == Log2Q(ONE)

NegLog(p) ==
    IF p <= 0 THEN MathDomainError
    ELSE ((Log2One - Log2Q(p)) * 11090) \div 65536

-----------------------------------------------------------------------------
(* Model files and loading *)

ProbHalf == ONE \div 2

ProbHigh == (ONE \div 10) * 9

PhraseLines ==
    << [w1 |-> <<"a">>, w2 |-> <<"b">>, prob |-> ProbHalf],
       [w1 |-> <<"a">>, w2 |-> <<"a">>, prob |-> ProbHalf],
       [w1 |-> <<"a", "b">>, w2 |-> <<"c">>, prob |-> ProbHigh],
       [w1 |-> end_symbol, w2 |-> <<"c">> \o end_symbol, prob |-> ProbHigh],
       [w1 |-> <<"b">> \o end_symbol, w2 |-> <<"c">> \o end_symbol, prob |-> ONE] >>

BigramLines ==
    << [words |-> <<"a", "b">>, prob |-> ONE],
       [words |-> <<"a", "*">>, prob |-> ProbHalf],
       [words |-> <<"*", "b">>, prob |-> ProbHalf],
       [words |-> <<"b">>, prob |-> ONE] >>

PhraseFiles ==
    {{}, {1}, {2}, {1, 2}, {3}, {4}, {5}, {1, 3}, {3, 5}, {4, 5}, {1, 2, 4},
     {1, 2, 3, 4, 5}}

BigramFiles == {{}, {2}, {3}, {1, 2, 3, 4}}

RECURSIVE SelectLines(_, _, _)
SelectLines(lines, S, i) ==
    IF i > Len(lines) THEN <<>>
    ELSE (IF i \in S THEN <<lines[i]>> ELSE <<>>) \o SelectLines(lines, S, i + 1)

RECURSIVE load_phrase_model(_)
load_phrase_model(lines) ==
    IF lines = <<>> THEN EmptyDict
    ELSE LET m == load_phrase_model(SubSeq(lines, 1, Len(lines) - 1))
             l == lines[Len(lines)]
             inner == IF l.w1 \in DOMAIN m THEN m[l.w1] ELSE <<>>
         IN  DictSet(m, l.w1, OSet(inner, l.w2, l.prob))

RECURSIVE load_unimodel(_)
load_unimodel(lines) ==
    IF lines = <<>> THEN EmptyDict
    ELSE LET m == load_unimodel(SubSeq(lines, 1, Len(lines) - 1))
             l == lines[Len(lines)]
         IN  IF Len(l.words) = 2 THEN m ELSE DictSet(m, l.words[1], l.prob)

RECURSIVE load_bimodel(_)
load_bimodel(lines) ==
    IF lines = <<>> THEN EmptyDict
    ELSE LET m == load_bimodel(SubSeq(lines, 1, Len(lines) - 1))
             l == lines[Len(lines)]
         IN  IF Len(l.words) = 2
             THEN DictSet(m, <<l.words[1], l.words[2]>>, l.prob)
             ELSE m

-----------------------------------------------------------------------------
(* Scoring *)

(* bigram_prob without the uniform floor *)
bigram_prob_nofloor(w0, w1, log) ==
    LET prob1 == IF <<w0, w1>> \in DOMAIN bimodel
                 THEN (bimodel[<<w0, w1>>] \div 100) * lambda2
                 ELSE IF <<w0, "*">> \in DOMAIN bimodel
                      THEN (bimodel[<<w0, "*">>] \div 100) * lambda2
                      ELSE 0
        prob2 == IF w1 \in DOMAIN unimodel
                 THEN prob1 + (unimodel[w1] \div 10000) * ((100 - lambda2) * lambda1)
                 ELSE prob1
    IN  IF log THEN NegLog(prob2) ELSE prob2

bigram_prob(w0, w1, log) ==
    LET prob0 == ((ONE \div 10000) * ((100 - lambda2) * (100 - lambda1))) \div unk_n
        prob1 == IF <<w0, w1>> \in DOMAIN bimodel
                 THEN prob0 + (bimodel[<<w0, w1>>] \div 100) * lambda2
                 ELSE IF <<w0, "*">> \in DOMAIN bimodel
                      THEN prob0 + (bimodel[<<w0, "*">>] \div 100) * lambda2
                      ELSE prob0
        prob2 == IF w1 \in DOMAIN unimodel
                 THEN prob1 + (unimodel[w1] \div 10000) * ((100 - lambda2) * lambda1)
                 ELSE prob1
    IN  IF log THEN NegLog(prob2) ELSE prob2

phrase_prob(p1, p2, log) ==
    LET prob0 == ((ONE \div 100) * (100 - lambda1)) \div unk_n
        prob1 == IF p1 \in DOMAIN phrasemodel /\ p2 \in OKeys(phrasemodel[p1])
                 THEN prob0 + (phrasemodel[p1][OGet(phrasemodel[p1], p2)].val \div 100) * lambda1
                 ELSE prob0
    IN  IF log THEN NegLog(prob1) ELSE prob1

-----------------------------------------------------------------------------
(* search: construction of the lattice *)

InputTokens == {<<"a">>, <<"b">>}

Sentences == UNION {[1..n -> InputTokens] : n \in 0..MaxSentLen}

Key(p, s, e) == <<p, <<s, e>>>>

Bracket(sent_without_symbol) == <<start_symbol>> \o sent_without_symbol \o <<end_symbol>>

(* NewBest that keeps the cells of the previous call *)
NewBest_stale(sent_len) ==
    [i \in 1..sent_len |->
        IF i = 1 THEN <<[key |-> Key(start_symbol, 0, 0), val |-> 0]>>
        ELSE IF i <= Len(best) THEN best[i] ELSE <<>>]

NewBest(sent_len) ==
    [i \in 1..sent_len |->
        IF i = 1 THEN <<[key |-> Key(start_symbol, 0, 0), val |-> 0]>> ELSE <<>>]

NewBeforePos(sent_len) == [i \in 1..sent_len |-> EmptyDict]

(* Relax that overwrites only on a strictly smaller cost *)
Relax_strict(lat, pos, next_key, next_prob, cur_key) ==
    LET cell == lat.best[pos + 1]
        write == [best |-> [lat.best EXCEPT ![pos + 1] = OSet(cell, next_key, next_prob)],
                  before_pos |-> [lat.before_pos EXCEPT ![pos + 1] = DictSet(@, next_key, cur_key)]]
    IN  IF next_key \in OKeys(cell)
        THEN IF cell[OGet(cell, next_key)].val > next_prob THEN write ELSE lat
        ELSE write

(* Relax that records the new state itself as its predecessor *)
Relax_selflink(lat, pos, next_key, next_prob, cur_key) ==
    LET cell == lat.best[pos + 1]
        write == [best |-> [lat.best EXCEPT ![pos + 1] = OSet(cell, next_key, next_prob)],
                  before_pos |-> [lat.before_pos EXCEPT ![pos + 1] = DictSet(@, next_key, next_key)]]
    IN  IF next_key \in OKeys(cell)
        THEN IF cell[OGet(cell, next_key)].val >= next_prob THEN write ELSE lat
        ELSE write

(* lines 141-147 and 159-165: insert the state, or overwrite it when the    *)
(* stored cost is >= the new one.  lat is [best, before_pos].               *)
Relax(lat, pos, next_key, next_prob, cur_key) ==
    LET cell == lat.best[pos + 1]
        write == [best |-> [lat.best EXCEPT ![pos + 1] = OSet(cell, next_key, next_prob)],
                  before_pos |-> [lat.before_pos EXCEPT ![pos + 1] = DictSet(@, next_key, cur_key)]]
    IN  IF next_key \in OKeys(cell)
        THEN IF cell[OGet(cell, next_key)].val >= next_prob THEN write ELSE lat
        ELSE write

(* lines 127-140: the span is one token that the phrase table does not map *)
(* to itself *)
IdentityApplies(next_start, nxt_end, next_phrase, next_word) ==
    /\ next_start = nxt_end
    /\ \/ next_phrase \notin DOMAIN phrasemodel
       \/ next_word \notin OKeys(phrasemodel[next_phrase])

RECURSIVE RelaxTargets(_, _, _, _, _, _, _)
RelaxTargets(lat, tgts, i, cur, next_start, nxt_end, next_phrase) ==
    IF i > Len(tgts) THEN lat
    ELSE LET conv_phrase == tgts[i].key
             conv_w0 == LastChar(cur.key[1])
             conv_w1 == FirstChar(conv_phrase)
             next_key == Key(conv_phrase, next_start, nxt_end)
             next_prob == cur.val + bigram_prob(conv_w0, conv_w1, TRUE)
                                  + phrase_prob(next_phrase, conv_phrase, TRUE)
         IN  RelaxTargets(Relax(lat, nxt_end, next_key, next_prob, cur.key),
                          tgts, i + 1, cur, next_start, nxt_end, next_phrase)

(* lines 121-165: the body of the loop over best[curpos].items() *)
ExtendFrom(lat, cur, next_start, nxt_end) ==
    LET next_phrase == Join(Slice(sent, next_start, nxt_end + 1))
        next_word == sent[next_start + 1]
        conv_w0 == LastChar(cur.key[1])
        lat1 == IF IdentityApplies(next_start, nxt_end, next_phrase, next_word)
                THEN Relax(lat, nxt_end, Key(next_phrase, next_start, nxt_end),
                           cur.val + bigram_prob(conv_w0, FirstChar(next_phrase), TRUE)
                                   + phrase_prob(next_phrase, next_word, TRUE),
                           cur.key)
                ELSE lat
    IN  IF next_phrase \in DOMAIN phrasemodel
        THEN RelaxTargets(lat1, phrasemodel[next_phrase], 1, cur,
                          next_start, nxt_end, next_phrase)
        ELSE lat1

RECURSIVE ExtendAll(_, _, _, _, _)
ExtendAll(lat, items, i, next_start, nxt_end) ==
    IF i > Len(items) THEN lat
    ELSE ExtendAll(ExtendFrom(lat, items[i], next_start, nxt_end),
                   items, i + 1, next_start, nxt_end)

Min(a, b) == IF a < b THEN a ELSE b

NextStart(cp) == cp + 1

(* line 116: the exclusive upper limit of next_end *)
EndLimit(next_start) == Min(Len(sent), next_start + max_len)

-----------------------------------------------------------------------------
(* search: selection of the final state and backtrace; convert *)

RECURSIVE MinItem(_, _, _, _)
MinItem(items, i, min_key, min_val) ==
    IF i > Len(items) THEN [min_key |-> min_key, min_val |-> min_val]
    ELSE IF min_val > items[i].val
         THEN MinItem(items, i + 1, items[i].key[1], items[i].val)
         ELSE MinItem(items, i + 1, min_key, min_val)

HasPrefix(t, p) == Len(t) >= Len(p) /\ SubSeq(t, 1, Len(p)) = p

HasSuffix(t, p) == Len(t) >= Len(p) /\ SubSeq(t, Len(t) - Len(p) + 1, Len(t)) = p

(* ReSub that strips the start marker only *)
ReSub_prefix_only(t) ==
    IF HasPrefix(t, start_symbol) THEN SubSeq(t, Len(start_symbol) + 1, Len(t)) ELSE t

(* re.sub(r"(^<s>|</s>$)", "", text) *)
ReSub(t) ==
    LET t1 == IF HasPrefix(t, start_symbol) THEN SubSeq(t, Len(start_symbol) + 1, Len(t)) ELSE t
    IN  IF HasSuffix(t1, end_symbol) THEN SubSeq(t1, 1, Len(t1) - Len(end_symbol)) ELSE t1

-----------------------------------------------------------------------------
(* Actions *)

Init ==
    /\ \E pf \in PhraseFiles :
           phrasemodel = load_phrase_model(SelectLines(PhraseLines, pf, 1))
    /\ \E bf \in BigramFiles :
           /\ unimodel = load_unimodel(SelectLines(BigramLines, bf, 1))
           /\ bimodel = load_bimodel(SelectLines(BigramLines, bf, 1))
    /\ pc = "idle"
    /\ entry = ""
    /\ arg_sent = <<>>
    /\ arg_max_len = DefaultMaxLen
    /\ verbose = FALSE
    /\ max_len = DefaultMaxLen
    /\ sent = <<>>
    /\ best = <<>>
    /\ before_pos = <<>>
    /\ curpos = 0
    /\ next_end = 0
    /\ ans = <<>>
    /\ phrase = <<>>
    /\ start = 0
    /\ end = 0
    /\ text = <<>>
    /\ err = ""

NoCall == pc \in {"idle", "done", "error"}

(* lines 106-110, entered with the given max_len *)
Enter(name, sent_without_symbol, given_max_len, effective_max_len, v) ==
    /\ NoCall
    /\ entry' = name
    /\ arg_sent' = sent_without_symbol
    /\ arg_max_len' = given_max_len
    /\ verbose' = v
    /\ max_len' = effective_max_len
    /\ sent' = Bracket(sent_without_symbol)
    /\ best' = NewBest(Len(sent'))
    /\ before_pos' = NewBeforePos(Len(sent'))
    /\ curpos' = 0
    /\ next_end' = 1
    /\ ans' = <<>>
    /\ phrase' = <<>>
    /\ start' = 0
    /\ end' = 0
    /\ text' = <<>>
    /\ err' = ""
    /\ pc' = "forward"
    /\ UNCHANGED models

(* search(sent_without_symbol, max_len=L, verbose=v) *)
CallSearch ==
    \E s \in Sentences, L \in 1..MaxArgLen, v \in BOOLEAN :
        Enter("search", s, L, L, v)

(* max_len that convert hands to search: lines 230-233 pass only verbose *)
ConvertMaxLen(given_max_len) == DefaultMaxLen

(* convert(sent_without_symbol, max_len=L, verbose=v) *)
CallConvert ==
    \E s \in Sentences, L \in 1..MaxArgLen, v \in BOOLEAN :
        Enter("convert", s, L, ConvertMaxLen(L), v)

(* one iteration of the loop over next_end, lines 117-165, and the advance *)
(* of both loops                                                           *)
Extend ==
    /\ pc = "forward"
    /\ LET next_start == NextStart(curpos)
           lat == ExtendAll([best |-> best, before_pos |-> before_pos],
                            best[curpos + 1], 1, next_start, next_end)
       IN  /\ best' = lat.best
           /\ before_pos' = lat.before_pos
           /\ IF next_end + 1 < EndLimit(next_start)
              THEN /\ next_end' = next_end + 1
                   /\ UNCHANGED <<curpos, pc>>
              ELSE IF curpos + 1 < Len(sent) - 1
                   THEN /\ curpos' = curpos + 1
                        /\ next_end' = NextStart(curpos + 1)
                        /\ UNCHANGED pc
                   ELSE /\ pc' = "forward_done"
                        /\ UNCHANGED <<curpos, next_end>>
    /\ UNCHANGED <<models, entry, arg_sent, arg_max_len, verbose, max_len, sent,
                   ans, phrase, start, end, text, err>>

(* lines 167-196: every state of positions 1.. has its predecessor looked up *)
TraceLookupsDefined ==
    \A i \in 1..(Len(sent) - 1) :
        \A k \in OKeys(best[i + 1]) : k \in DOMAIN before_pos[i + 1]

TraceOutput ==
    /\ pc = "forward_done"
    /\ verbose
    /\ IF TraceLookupsDefined
       THEN pc' = "select" /\ UNCHANGED err
       ELSE pc' = "error" /\ err' = "KeyError"
    /\ UNCHANGED <<models, entry, arg_sent, arg_max_len, verbose, max_len, sent,
                   best, before_pos, curpos, next_end, ans, phrase, start, end, text>>

(* lines 198-212 *)
SearchBest ==
    /\ \/ pc = "select"
       \/ pc = "forward_done" /\ ~verbose
    /\ LET ind == Len(sent) - 1
           m == MinItem(best[ind + 1], 1, <<>>, Inf)
           k == Key(m.min_key, ind, ind)
       IN  IF k \in DOMAIN before_pos[ind + 1]
           THEN /\ phrase' = before_pos[ind + 1][k][1]
                /\ start' = before_pos[ind + 1][k][2][1]
                /\ end' = before_pos[ind + 1][k][2][2]
                /\ ans' = <<m.min_key, phrase'>>
                /\ pc' = "backtrace"
                /\ UNCHANGED err
           ELSE /\ ans' = <<m.min_key>>
                /\ start' = ind
                /\ end' = ind
                /\ pc' = "error"
                /\ err' = "KeyError"
                /\ UNCHANGED phrase
    /\ UNCHANGED <<models, entry, arg_sent, arg_max_len, verbose, max_len, sent,
                   best, before_pos, curpos, next_end, text>>

(* lines 214-216 *)
Backtrace ==
    /\ pc = "backtrace"
    /\ end # 0
    /\ LET k == Key(phrase, start, end)
       IN  IF k \in DOMAIN before_pos[end + 1]
           THEN /\ phrase' = before_pos[end + 1][k][1]
                /\ start' = before_pos[end + 1][k][2][1]
                /\ end' = before_pos[end + 1][k][2][2]
                /\ ans' = Append(ans, phrase')
                /\ UNCHANGED <<pc, err>>
           ELSE /\ pc' = "error"
                /\ err' = "KeyError"
                /\ UNCHANGED <<phrase, start, end, ans>>
    /\ UNCHANGED <<models, entry, arg_sent, arg_max_len, verbose, max_len, sent,
                   best, before_pos, curpos, next_end, text>>

(* lines 218-220, and lines 234-235 when the call came through convert *)
Return ==
    /\ pc = "backtrace"
    /\ end = 0
    /\ ans' = Reverse(ans)
    /\ text' = IF entry = "convert" THEN ReSub(Join(ans')) ELSE text
    /\ pc' = "done"
    /\ UNCHANGED <<models, entry, arg_sent, arg_max_len, verbose, max_len, sent,
                   best, before_pos, curpos, next_end, phrase, start, end, err>>

Next ==
    \/ CallSearch
    \/ CallConvert
    \/ Extend
    \/ TraceOutput
    \/ SearchBest
    \/ Backtrace
    \/ Return

Spec == Init /\ [][Next]_vars

-----------------------------------------------------------------------------
(* Properties *)

Words == {"a", "b", "c", "*", "<", ">"}

Phrases ==
    {PhraseLines[i].w1 : i \in 1..Len(PhraseLines)}
        \cup {PhraseLines[i].w2 : i \in 1..Len(PhraseLines)}
        \cup InputTokens \cup {start_symbol, end_symbol, <<"c">>}

ForwardEnded == pc \in {"forward_done", "select", "backtrace", "done"}

LastPos == Len(sent) - 1

Max(a, b) == IF a > b THEN a ELSE b

SourceSpan(s, e) == Join(SubSeq(sent, s + 1, e + 1))

(* the rewrites of the span s..e: the phrase-table targets, and the token *)
(* itself when the span is one token the table does not map to itself     *)
Candidates(s, e) ==
    LET src == SourceSpan(s, e)
        trained == IF src \in DOMAIN phrasemodel THEN OKeys(phrasemodel[src]) ELSE {}
    IN  IF s = e THEN trained \cup {src} ELSE trained

StepCost(prev_phrase, s, e, cand) ==
    bigram_prob(LastChar(prev_phrase), FirstChar(cand), TRUE)
        + phrase_prob(SourceSpan(s, e), cand, TRUE)

(* every segmentation of positions 0..pos into spans of at most max_len *)
(* tokens, each with a rewrite, and its summed cost                      *)
RECURSIVE PathsTo(_)
PathsTo(pos) ==
    IF pos = 0 THEN {[phrases |-> <<start_symbol>>, cost |-> 0]}
    ELSE UNION { UNION { { [phrases |-> Append(path.phrases, cand),
                            cost |-> path.cost
                                + StepCost(path.phrases[Len(path.phrases)], s, pos, cand)]
                           : cand \in Candidates(s, pos) }
                         : path \in PathsTo(s - 1) }
                 : s \in Max(1, pos - max_len + 1)..pos }

MinPathCost ==
    CHOOSE c \in {path.cost : path \in PathsTo(LastPos)} :
        \A path \in PathsTo(LastPos) : c <= path.cost

(* C1: the phrase sequence search returns is a path of minimum total cost *)
(* among all segmentations of the bracketed input into spans of at most   *)
(* max_len tokens.                                                        *)
C1_ReturnedPathIsMinCost ==
    pc = "done" =>
        \E path \in PathsTo(LastPos) :
            path.phrases = ans /\ path.cost = MinPathCost

(* C2: a call never ends in an error: the forward pass, the selection of  *)
(* the final state and the backtrace never look up a missing key.         *)
C2_NoLookupError == pc # "error" /\ err = ""

(* C3: convert on the empty token sequence returns the empty string and   *)
(* raises no exception, whatever the tables are.                          *)
C3_EmptyInputGivesEmptyString ==
    (entry = "convert" /\ arg_sent = <<>> /\ pc \in {"done", "error"}) =>
        (pc = "done" /\ text = <<>>)

(* the interpolated probability as the claim C4 describes it *)
WildcardPreviousBigram(w0, w1) ==
    LET prob0 == ((ONE \div 10000) * ((100 - lambda2) * (100 - lambda1))) \div unk_n
        prob1 == IF <<w0, w1>> \in DOMAIN bimodel
                 THEN prob0 + (bimodel[<<w0, w1>>] \div 100) * lambda2
                 ELSE IF <<"*", w1>> \in DOMAIN bimodel
                      THEN prob0 + (bimodel[<<"*", w1>>] \div 100) * lambda2
                      ELSE prob0
    IN  IF w1 \in DOMAIN unimodel
        THEN prob1 + (unimodel[w1] \div 10000) * ((100 - lambda2) * lambda1)
        ELSE prob1

(* C4: when the pair (prev, cur) is not in the bigram map, bigram_prob    *)
(* adds lambda2 times the entry (wildcard, cur), exactly when that entry  *)
(* exists, and no other bigram entry contributes.                         *)
C4_BackoffUsesWildcardPrevious ==
    \A w0 \in Words \ {"*"}, w1 \in Words \ {"*"} :
        bigram_prob(w0, w1, FALSE) = WildcardPreviousBigram(w0, w1)

(* C5: for all tokens and all phrase pairs the interpolated probability   *)
(* is strictly between 0 and 1, so the cost is finite and strictly        *)
(* positive, also when no table entry matches.  The tables of a call are  *)
(* those of every other state of the behaviour, so the scores are looked  *)
(* at once per call, when its forward pass has applied them.              *)
C5_ProbabilityFloor ==
    pc = "forward_done" =>
        /\ \A w0 \in Words, w1 \in Words :
               LET p == bigram_prob(w0, w1, FALSE)
                   c == bigram_prob(w0, w1, TRUE)
               IN  0 < p /\ p < ONE /\ 0 < c /\ c < Inf
        /\ \A p1 \in Phrases, p2 \in Phrases :
               LET p == phrase_prob(p1, p2, FALSE)
                   c == phrase_prob(p1, p2, TRUE)
               IN  0 < p /\ p < ONE /\ 0 < c /\ c < Inf

(* a call past its forward pass that scored a doubly matched bigram, an unseen bigram, *)
(* a phrase pair of probability 1 and an unseen phrase pair               *)
C5_Witness ==
    /\ pc = "forward_done"
    /\ arg_sent = <<<<"a">>, <<"b">>>>
    /\ <<"a", "b">> \in DOMAIN bimodel /\ bimodel[<<"a", "b">>] = ONE
    /\ "b" \in DOMAIN unimodel /\ unimodel["b"] = ONE
    /\ <<">", "a">> \notin DOMAIN bimodel /\ <<">", "*">> \notin DOMAIN bimodel
    /\ "a" \notin DOMAIN unimodel
    /\ phrase_prob(<<"b">> \o end_symbol, <<"c">> \o end_symbol, FALSE) > (ONE \div 100) * lambda1
    /\ <<"b">> \notin DOMAIN phrasemodel

(* C6: no step of search or convert changes the phrase table, the unigram *)
(* map or the bigram map, and every call starts from a lattice that holds *)
(* the start state alone, so nothing of an earlier call reaches a later   *)
(* one.                                                                   *)
C6_ModelsStaticLatticeFresh ==
    [][ /\ phrasemodel' = phrasemodel
        /\ unimodel' = unimodel
        /\ bimodel' = bimodel
        /\ (pc \in {"idle", "done", "error"} /\ pc' = "forward") =>
              /\ sent' = <<start_symbol>> \o arg_sent' \o <<end_symbol>>
              /\ Len(best') = Len(sent')
              /\ best'[1] = <<[key |-> <<start_symbol, <<0, 0>>>>, val |-> 0]>>
              /\ \A i \in 2..Len(best') : best'[i] = <<>>
              /\ Len(before_pos') = Len(sent')
              /\ \A i \in 1..Len(before_pos') : DOMAIN before_pos'[i] = {}
              /\ curpos' = 0
              /\ ans' = <<>> ]_vars

(* a verbose call has finished on non-empty tables and left a lattice *)
(* with rewritten states behind                                       *)
C6_Witness ==
    /\ pc = "done"
    /\ verbose
    /\ DOMAIN phrasemodel # {}
    /\ DOMAIN bimodel # {}
    /\ Len(best) = 4
    /\ Len(best[4]) >= 2

(* C7: every lattice state of a call made with max_len = L has a span of *)
(* at most L tokens, for search and for convert.                         *)
C7_SpanWithinMaxLen ==
    \A i \in 1..Len(best) : \A j \in 1..Len(best[i]) :
        best[i][j].key[2][2] - best[i][j].key[2][1] + 1 <= arg_max_len

NoSpanIsSource ==
    \A s \in 0..(Len(arg_sent) + 1) : \A e \in s..(Len(arg_sent) + 1) :
        Join(SubSeq(<<start_symbol>> \o arg_sent \o <<end_symbol>>, s + 1, e + 1))
            \notin DOMAIN phrasemodel

(* C8: when no contiguous span of the bracketed input is a source key of *)
(* the phrase table, convert completes and returns the concatenation of  *)
(* the input tokens.                                                     *)
C8_IdentityWithoutRewrites ==
    (entry = "convert" /\ pc \in {"done", "error"} /\ NoSpanIsSource) =>
        (pc = "done" /\ text = Join(arg_sent))

(* convert returned on a two-token input that a non-empty phrase table *)
(* does not touch, scored with a non-empty bigram table                *)
C8_Witness ==
    /\ entry = "convert"
    /\ pc = "done"
    /\ NoSpanIsSource
    /\ Len(arg_sent) = 2
    /\ DOMAIN phrasemodel # {}
    /\ DOMAIN bimodel # {}
    /\ text = Join(arg_sent)

(* cost of the transition from the i-th state of position s-1 into the *)
(* state (p, (s, e))                                                    *)
TransCost(i, p, s, e) ==
    best[s][i].val
        + bigram_prob(LastChar(best[s][i].key[1]), FirstChar(p), TRUE)
        + phrase_prob(SourceSpan(s, e), p, TRUE)

Minimisers(p, s, e) ==
    {i \in 1..Len(best[s]) :
        \A j \in 1..Len(best[s]) : TransCost(i, p, s, e) <= TransCost(j, p, s, e)}

LastOf(S) == CHOOSE i \in S : \A j \in S : j <= i

FirstOf(S) == CHOOSE i \in S : \A j \in S : i <= j

(* C9: when the forward pass has ended, every state stored at a position *)
(* > 0 holds the minimum of predecessor cost + bigram cost + phrase cost *)
(* over the transitions into it, and its predecessor is the last         *)
(* evaluated of the transitions that achieve the minimum.                *)
C9_RelaxationInvariant ==
    ForwardEnded =>
        \A i \in 2..Len(best) : \A j \in 1..Len(best[i]) :
            LET k == best[i][j].key
                p == k[1]
                s == k[2][1]
                e == k[2][2]
                M == Minimisers(p, s, e)
            IN  /\ M # {}
                /\ best[i][j].val = TransCost(LastOf(M), p, s, e)
                /\ k \in DOMAIN before_pos[i]
                /\ before_pos[i][k] = best[s][LastOf(M)].key

(* the forward pass has ended with a state that two equal-cost *)
(* transitions reach, the later one recorded                    *)
C9_Witness ==
    /\ ForwardEnded
    /\ \E i \in 2..Len(best) : \E j \in 1..Len(best[i]) :
           LET k == best[i][j].key
               M == Minimisers(k[1], k[2][1], k[2][2])
           IN  /\ Cardinality(M) >= 2
               /\ before_pos[i][k] = best[k[2][1]][LastOf(M)].key
               /\ before_pos[i][k] # best[k[2][1]][FirstOf(M)].key

StartKey == <<start_symbol, <<0, 0>>>>

(* the predecessor walk from k reaches the start state in at most fuel *)
(* steps, each predecessor ending right before the span of its successor *)
RECURSIVE WalkReachesStart(_, _)
WalkReachesStart(k, fuel) ==
    \/ k = StartKey
    \/ /\ fuel > 0
       /\ k[2][2] + 1 \in 1..Len(before_pos)
       /\ k \in DOMAIN before_pos[k[2][2] + 1]
       /\ LET b == before_pos[k[2][2] + 1][k]
          IN  /\ b[2][2] = k[2][1] - 1
              /\ b[2][2] < k[2][2]
              /\ WalkReachesStart(b, fuel - 1)

(* C10: every state with span (start, end) is stored at position end, has *)
(* start >= 1 unless it is the start state, and has a predecessor stored  *)
(* at position start - 1; the predecessor walk from it covers 0..end with *)
(* contiguous spans and reaches the start state in at most end steps.     *)
C10_BackpointerStructure ==
    \A i \in 1..Len(best) : \A j \in 1..Len(best[i]) :
        LET k == best[i][j].key
            s == k[2][1]
            e == k[2][2]
        IN  /\ e = i - 1
            /\ \/ i = 1 /\ k = StartKey
               \/ /\ i > 1
                  /\ s >= 1
                  /\ s <= e
                  /\ k \in DOMAIN before_pos[i]
                  /\ before_pos[i][k] \in OKeys(best[s])
                  /\ before_pos[i][k][2][2] = s - 1
            /\ WalkReachesStart(k, e)

(* the forward pass has ended with a state at the last position whose   *)
(* span covers two tokens and whose walk passes through a middle state   *)
C10_Witness ==
    /\ ForwardEnded
    /\ Len(best) = 4
    /\ \E j \in 1..Len(best[4]) :
           LET k == best[4][j].key
           IN  /\ k[2][1] = 2
               /\ before_pos[4][k] # StartKey
               /\ WalkReachesStart(k, 3)

====
